---- MODULE Spec2Model ----
(***************************************************************************)
(* Model of ug_to_wp/compare_to_wikipedia.py: compare_data (the tiered     *)
(* cell matcher swept over two label-indexed tables) and print_summary     *)
(* (the counting report over the two result tables).                       *)
(*                                                                         *)
(* A Python str is modelled as a sequence of one-character strings, so     *)
(* that ==, +, in, replace, strip, lower, casefold and unidecode are       *)
(* computed character by character as the interpreter computes them.       *)
(* A missing cell (pandas NaN) is the value NaN.                           *)
(***************************************************************************)
EXTENDS Integers, Sequences, FiniteSets, TLC

(***************************************************************************)
(* Bounds of the model.                                                    *)
(***************************************************************************)
\* rows (countries) of the tables compared under Spec
NumCountries == 2
\* tokens concatenated into a cell text under SpecCell
MaxTokens == 2
\* tokens concatenated into a text under SpecFold
MaxFoldTokens == 3

\* the cell passes that may be under way at once when the sweep is shared out
NumWorkers == 2

(***************************************************************************)
(* Sequence helpers.                                                       *)
(***************************************************************************)
Range(q) == {q[k] : k \in 1..Len(q)}

RECURSIVE Flatten(_)
Flatten(qq) == IF qq = <<>> THEN <<>> ELSE Head(qq) \o Flatten(Tail(qq))

\* text[from:] of Python, from counted from 1
Drop(text, n) == SubSeq(text, n + 1, Len(text))

\* text.startswith(key)
StartsWith(text, key) ==
    /\ Len(key) <= Len(text)
    /\ \A k \in 1..Len(key) : text[k] = key[k]

\* the positions, counted from 1, at which key occurs in text
Occurrences(text, key) ==
    {k \in 1..(Len(text) - Len(key) + 1) :
        \A n \in 1..Len(key) : text[k + n - 1] = key[n]}

\* text.find(key), counted from 1; 0 when key does not occur (Python's -1)
Find(text, key) ==
    LET found == Occurrences(text, key)
    IN  IF found = {} THEN 0 ELSE CHOOSE k \in found : \A m \in found : k <= m

(***************************************************************************)
(* pandas.isna / pandas.notna and the element-wise == of two DataFrames.   *)
(***************************************************************************)
NaN == <<"NaN">>

isna(v) == v = NaN

notna(v) == v # NaN

\* NaN compares unequal to everything, itself included
ElementEq(u, w) == notna(u) /\ notna(w) /\ u = w

(***************************************************************************)
(* str.lower, str.casefold and unidecode on the characters of the model.   *)
(***************************************************************************)
UpperChars == <<"A","B","C","D","E","F","G","H","I","J","K","L","M","N","O","P",
                "Q","R","S","T","U","V","W","X","Y","Z","Ñ","É">>
LowerChars == <<"a","b","c","d","e","f","g","h","i","j","k","l","m","n","o","p",
                "q","r","s","t","u","v","w","x","y","z","ñ","é">>

\* the lower-case letter of every upper-case letter
LowerOf ==
    [c \in Range(UpperChars) |->
        LowerChars[CHOOSE k \in 1..Len(UpperChars) : UpperChars[k] = c]]

lower_char(c) == IF c \in DOMAIN LowerOf THEN <<LowerOf[c]>> ELSE <<c>>

\* casefold is lower except for characters whose fold is longer (sharp s)
casefold_char(c) == IF c = "ß" THEN <<"s","s">> ELSE lower_char(c)

\* ASCII transliteration: ASCII is kept, accented Latin letters lose the accent
unidecode_char(c) ==
    CASE c = "ñ" -> <<"n">>
      [] c = "Ñ" -> <<"N">>
      [] c = "é" -> <<"e">>
      [] c = "É" -> <<"E">>
      [] c = "ß" -> <<"s","s">>
      [] OTHER   -> <<c>>

\* the character-wise maps; a text none of whose characters changes is itself
lower(text) ==
    IF \A k \in 1..Len(text) : lower_char(text[k]) = <<text[k]>> THEN text
    ELSE Flatten([k \in 1..Len(text) |-> lower_char(text[k])])

casefold(text) ==
    IF \A k \in 1..Len(text) : casefold_char(text[k]) = <<text[k]>> THEN text
    ELSE Flatten([k \in 1..Len(text) |-> casefold_char(text[k])])

unidecode(text) ==
    IF \A k \in 1..Len(text) : unidecode_char(text[k]) = <<text[k]>> THEN text
    ELSE Flatten([k \in 1..Len(text) |-> unidecode_char(text[k])])

(***************************************************************************)
(* str.replace(key, value): every non-overlapping occurrence, left to      *)
(* right.                                                                  *)
(***************************************************************************)
RECURSIVE replace(_, _, _)
replace(text, key, value) ==
    IF Len(text) < Len(key) THEN text
    ELSE IF StartsWith(text, key)
         THEN value \o replace(Drop(text, Len(key)), key, value)
         ELSE <<Head(text)>> \o replace(Tail(text), key, value)

\* s in w for two strings: s is a contiguous substring of w
Contains(w, s) ==
    \E k \in 0..(Len(w) - Len(s)) : \A n \in 1..Len(s) : w[k + n] = s[n]

\* str.strip(): leading and trailing whitespace removed
RECURSIVE lstrip(_)
lstrip(text) ==
    IF text # <<>> /\ Head(text) = " " THEN lstrip(Tail(text)) ELSE text

RECURSIVE rstrip(_)
rstrip(text) ==
    IF text # <<>> /\ text[Len(text)] = " "
    THEN rstrip(SubSeq(text, 1, Len(text) - 1)) ELSE text

strip(text) == rstrip(lstrip(text))

(***************************************************************************)
(* mwparserfromhell.parse(text).strip_code() on the markup of the model:   *)
(* a wikilink [[title]] or [[title|text]] is reduced to the text it shows, *)
(* an unclosed [[ is left as plain text.                                   *)
(***************************************************************************)
RECURSIVE strip_code(_)
strip_code(text) ==
    LET open == Find(text, <<"[","[">>)
    IN  IF open = 0 THEN text
        ELSE LET after == Drop(text, open + 1)
                 close == Find(after, <<"]","]">>)
             IN  IF close = 0 THEN text
                 ELSE LET inner == SubSeq(after, 1, close - 1)
                          bar   == Find(inner, <<"|">>)
                          shown == IF bar = 0 THEN inner ELSE Drop(inner, bar)
                      IN  SubSeq(text, 1, open - 1) \o shown
                              \o strip_code(Drop(after, close + 1))

(***************************************************************************)
(* The candidate lists of one cell.                                        *)
(***************************************************************************)
\* wp_texts = [wikicode, wikitext, wikitext.strip()]
wp_texts(wp_text_raw) ==
    LET wikitext == strip_code(wp_text_raw)
    IN  <<wp_text_raw, wikitext, strip(wikitext)>>

wp_suffixes ==
    <<<<" ","(","c","o","u","n","t","r","y",")">>,
      <<" ","(","c","i","u","d","a","d",")">>,
      <<" ","(","p","a","y","s",")">>,
      <<" ","(","c","i","t","y","-","s","t","a","t","e",")">>,
      <<" ","(","S","t","a","d","t",")">>,
      <<" ","(","s","t","a","d","t",")">>,
      <<" ","(","v","i","l","l","e",")">>,
      <<" ","(","b","y",")">>>>

\* ug_texts without the disambiguation suffixes
ug_texts_bare(ug_text) == <<ug_text>>

\* ug_texts = [ug_text] + [ug_text + x for x in wp_suffixes]
ug_texts(ug_text) ==
    <<ug_text>> \o [k \in 1..Len(wp_suffixes) |-> ug_text \o wp_suffixes[k]]

\* any(s in wp_texts for s in ug_texts): equality with a whole candidate
ExactMatch(ug_text, wp_text_raw) ==
    Range(ug_texts(ug_text)) \cap Range(wp_texts(wp_text_raw)) # {}

(***************************************************************************)
(* The fuzzy fold.                                                         *)
(***************************************************************************)
\* the grave accent, named by its code point: a string literal cannot hold it
Backtick == "U+0060"

Apostrophe == "'"

\* the dict with the hyphen deleted instead of turned into a space
substitutions_hyphen_deleted ==
    << <<<<"s","a","i","n","t">>, <<"s","t">>>>,
       <<<<".">>, <<>>>>,
       <<<<"-">>, <<>>>>,
       <<<<Backtick>>, <<Apostrophe>>>> >>

\* the dict of substitutions, in insertion order, as <<key, value>> pairs
substitutions ==
    << <<<<"s","a","i","n","t">>, <<"s","t">>>>,
       <<<<".">>, <<>>>>,
       <<<<"-">>, <<" ">>>>,
       <<<<Backtick>>, <<Apostrophe>>>> >>

\* for key, value in substitutions.items(): if found, replace;
\* new_w after the first k entries of the dict
RECURSIVE substitute_upto(_, _)
substitute_upto(w, k) ==
    IF k = 0 THEN w
    ELSE LET new_w == substitute_upto(w, k - 1)
             key   == substitutions[k][1]
             value == substitutions[k][2]
         IN  IF Find(new_w, key) > 0 THEN replace(new_w, key, value) ELSE new_w

substitute(w) == substitute_upto(w, Len(substitutions))

\* the fold without the unidecode step
texts_fuzzy_no_unidecode(texts) ==
    LET cased == {lower(x) : x \in texts} \cup {casefold(x) : x \in texts}
    IN  {substitute(w) : w \in cased}

\* lower + casefold of every text, then unidecode of all of those added,
\* then the substitutions applied to every entry.  The lists of the code are
\* read only through any(...), so they are kept as the sets of their entries.
texts_fuzzy(texts) ==
    LET cased == {lower(x) : x \in texts} \cup {casefold(x) : x \in texts}
        plain == cased \cup {unidecode(x) : x \in cased}
    IN  {substitute(w) : w \in plain}

\* the containment taken the other way round: w in s
FuzzyMatch_Reversed(ug_text, wp_text_raw) ==
    \E s \in texts_fuzzy(Range(ug_texts(ug_text))),
       w \in texts_fuzzy(Range(wp_texts(wp_text_raw))) : Contains(s, w)

\* any(s in w for s in ug_texts_fuzzy for w in wp_texts_fuzzy)
FuzzyMatch(ug_text, wp_text_raw) ==
    LET ug_texts_fuzzy == texts_fuzzy(Range(ug_texts(ug_text)))
        wp_texts_fuzzy == texts_fuzzy(Range(wp_texts(wp_text_raw)))
    IN  \E s \in ug_texts_fuzzy, w \in wp_texts_fuzzy : Contains(w, s)


(***************************************************************************)
(* The tables.  A DataFrame is its index (row labels, in order), its       *)
(* columns (in order) and a value for every <<country, col>> pair.         *)
(***************************************************************************)
CountryNames == <<"Bolivia", "Russia", "Spain", "Egypt">>

Columns == <<"Capital", "Country:de">>

\* df[col][country]
at(df, col, country) == df[<<country, col>>]

Keys(index, columns) == Range(index) \X Range(columns)

\* the cells in the order of: for country in index: for col in columns
CellOrder(index, columns) ==
    [k \in 1..(Len(index) * Len(columns)) |->
        <<index[((k - 1) \div Len(columns)) + 1],
          columns[((k - 1) % Len(columns)) + 1]>>]

\* the table with the given labels whose cell in row r, column c is grid[r, c]
Table(index, columns, grid) ==
    [key \in Keys(index, columns) |->
        grid[<<CHOOSE r \in 1..Len(index) : index[r] = key[1],
               CHOOSE c \in 1..Len(columns) : columns[c] = key[2]>>]]

(***************************************************************************)
(* Inputs.  Under Spec every cell is one of the cell cases below; under    *)
(* SpecCell a one-cell table holds texts concatenated from tokens; under   *)
(* SpecFold a single text is folded.                                       *)
(***************************************************************************)
Bolivia == <<"B","o","l","i","v","i","a">>
BoliviaLink == <<"[","[","B","o","l","i","v","i","a"," ","(","c","o","u","n","t","r","y",")","]","]">>
Egypt == <<"E","g","y","p","t">>
Cairo == <<"C","a","i","r","o">>
StPetersburg == <<"S","t","."," ","P","e","t","e","r","s","b","u","r","g">>
SaintPetersburg == <<"S","a","i","n","t"," ","P","e","t","e","r","s","b","u","r","g">>

\* <<reference value, scraped value>> of one cell whose reference is present
\* (every note has a country name in every language)
CountryCases ==
    { <<Egypt, NaN>>,
      <<Bolivia, BoliviaLink>>,
      <<StPetersburg, SaintPetersburg>>,
      <<Egypt, Cairo>> }

\* a capital can also be missing from the reference (a note with no capital)
CapitalCases == CountryCases \cup { <<NaN, NaN>>, <<NaN, Cairo>> }

\* the cases a cell of the given column is drawn from
ColumnCases(col) == IF col = "Capital" THEN CapitalCases ELSE CountryCases

\* the non-empty concatenations of at most n tokens
Texts(tokens, n) ==
    {Flatten(q) : q \in UNION {[1..k -> tokens] : k \in 1..n}}

UgTokens == {<<"S","t">>, <<".">>, <<"Ñ">>}

WpTokens == {<<"S","t">>, <<"S","a","i","n","t">>, <<"ñ">>, <<"n">>}

\* a scraped value: the text itself, as a wikilink, padded, or disambiguated
Decorated(text) ==
    { text,
      <<"[","[">> \o text \o <<"]","]">>,
      <<" ">> \o text \o <<" ">>,
      text \o wp_suffixes[1] }

UgValues == {NaN} \cup Texts(UgTokens, MaxTokens)

WpValues == {NaN} \cup UNION {Decorated(t) : t \in Texts(WpTokens, MaxTokens)}

FoldTokens ==
    {<<"s","a">>, <<"i","n","t">>, <<".">>, <<"-">>, <<Backtick>>, <<Apostrophe>>,
     <<"S">>, <<"ñ">>, <<"ß">>}

FoldTexts == Texts(FoldTokens, MaxFoldTokens)

(***************************************************************************)
(* State.                                                                  *)
(***************************************************************************)
VARIABLES
    ug_index, ug_columns, ug_data,      \* the reference table
    wp_index, wp_columns, wp_data,      \* the scraped table
    pc,                                 \* where the run is
    cmp_data, cmp_data_fuzzy,           \* the locals of compare_data
    i, j,                               \* row and column of the next cell
    error,                              \* the exception that ended the run
    returned,                           \* what compare_data returned to main
    vals_nan, vals_nowp, vals_matching_fuzzy, vals_mismatch,
    vals_mismatch_lang,                 \* vals_mismatch_en, _de, _es, _fr, _nb
    vals_matching,
    printed_nowp, printed_fuzzy, printed_mismatch,  \* cells listed per section
    fold_text, fold_once, fold_twice,   \* SpecFold: a text and its folds
    todo, inflight, order,              \* SpecAnyOrder: cells not begun, cell
                                        \* passes under way, cells as begun
    par_data, par_data_fuzzy,           \* the two tables of the shared-out sweep
    par_error, par_returned             \* its exception, its returned tables

tables == <<ug_index, ug_columns, ug_data, wp_index, wp_columns, wp_data>>

locals == <<cmp_data, cmp_data_fuzzy, i, j>>

summary == <<vals_nan, vals_nowp, vals_matching_fuzzy, vals_mismatch,
             vals_mismatch_lang, vals_matching,
             printed_nowp, printed_fuzzy, printed_mismatch>>

folds == <<fold_text, fold_once, fold_twice>>

workers == <<todo, inflight, order, par_data, par_data_fuzzy, par_error,
             par_returned>>

vars == <<tables, pc, locals, error, returned, summary, folds, workers>>

Langs == {"en", "de", "es", "fr", "nb"}

\* no cell pass has been shared out
NoWorkers ==
    /\ todo = {} /\ inflight = {} /\ order = <<>>
    /\ par_data = <<>> /\ par_data_fuzzy = <<>>
    /\ par_error = "none" /\ par_returned = <<>>

\* the state before main calls compare_data, the tables apart
Fresh ==
    /\ cmp_data = <<>> /\ cmp_data_fuzzy = <<>>
    /\ i = 1 /\ j = 1
    /\ error = "none"
    /\ returned = <<>>
    /\ vals_nan = 0 /\ vals_nowp = 0 /\ vals_matching_fuzzy = 0
    /\ vals_mismatch = 0 /\ vals_matching = 0
    /\ vals_mismatch_lang = [l \in Langs |-> 0]
    /\ printed_nowp = <<>> /\ printed_fuzzy = <<>> /\ printed_mismatch = <<>>
    /\ NoWorkers

NoFold == fold_text = <<>> /\ fold_once = {} /\ fold_twice = {}

\* the label sets a stale cache file can give the scraped table
WpLabels(index, columns) ==
    { <<index, columns>>,
      <<index, <<columns[1], "Country:fr">>>>,
      <<<<"eSwatini">> \o Tail(index), columns>> }

Init ==
    \E grid \in {g \in [(1..NumCountries) \X (1..Len(Columns)) -> CapitalCases] :
                    \A rc \in DOMAIN g : g[rc] \in ColumnCases(Columns[rc[2]])} :
        \E labels \in WpLabels(SubSeq(CountryNames, 1, NumCountries), Columns) :
            /\ ug_index = SubSeq(CountryNames, 1, NumCountries)
            /\ ug_columns = Columns
            /\ ug_data = Table(ug_index, ug_columns,
                               [rc \in DOMAIN grid |-> grid[rc][1]])
            /\ wp_index = labels[1]
            /\ wp_columns = labels[2]
            /\ wp_data = Table(wp_index, wp_columns,
                               [rc \in DOMAIN grid |-> grid[rc][2]])
            /\ pc = "start"
            /\ Fresh
            /\ NoFold

InitCell ==
    \E u \in UgValues : \E w \in WpValues :
        /\ ug_index = <<CountryNames[1]>>
        /\ ug_columns = <<Columns[1]>>
        /\ ug_data = Table(ug_index, ug_columns, [rc \in {<<1, 1>>} |-> u])
        /\ wp_index = ug_index
        /\ wp_columns = ug_columns
        /\ wp_data = Table(wp_index, wp_columns, [rc \in {<<1, 1>>} |-> w])
        /\ pc = "start"
        /\ Fresh
        /\ NoFold

InitFold ==
    \E t \in FoldTexts :
        /\ ug_index = <<>> /\ ug_columns = <<>> /\ ug_data = <<>>
        /\ wp_index = <<>> /\ wp_columns = <<>> /\ wp_data = <<>>
        /\ pc = "fold"
        /\ Fresh
        /\ fold_text = t /\ fold_once = {} /\ fold_twice = {}

(***************************************************************************)
(* compare_data.                                                           *)
(***************************************************************************)
\* frames of the same shape, whatever their labels
SameShape(index1, columns1, index2, columns2) ==
    Len(index1) = Len(index2) /\ Len(columns1) = Len(columns2)

\* DataFrame == DataFrame is defined only for identically-labeled frames:
\* the same row labels and the same column labels, in the same order
IdenticallyLabeled(index1, columns1, index2, columns2) ==
    index1 = index2 /\ columns1 = columns2

\* the element-wise ug_data == wp_data; a label the other frame lacks is NaN
SimpleMatch(df1, df2) ==
    [key \in DOMAIN df1 |->
        ElementEq(df1[key], IF key \in DOMAIN df2 THEN df2[key] ELSE NaN)]

\* "or" written for "and"
BothNaN_Either(ug, wp) == isna(wp) \/ isna(ug)

\* line 330: both values missing
BothNaN(ug, wp) == isna(wp) /\ isna(ug)

\* line 334: the cell failed so far and Wikipedia has a value
Advanced(ug, wp, cmp) == ~BothNaN(ug, wp) /\ ~cmp /\ notna(wp)

\* ug_text + x with ug_text the float NaN: TypeError
CellRaises(ug, wp, cmp) == Advanced(ug, wp, cmp) /\ isna(ug)

\* the pass without its "Match NaN's" branch
CellStrict_NoNaN(ug, wp, cmp) ==
    IF Advanced(ug, wp, cmp) /\ ExactMatch(ug, wp) THEN TRUE ELSE cmp

\* cmp_data[col][country] after the cell's pass, cmp its value before
CellStrict(ug, wp, cmp) ==
    IF BothNaN(ug, wp) THEN TRUE
    ELSE IF Advanced(ug, wp, cmp) /\ ExactMatch(ug, wp) THEN TRUE
    ELSE cmp

\* the pass without lines 400-402, which make the fuzzy table a superset
CellFuzzy_NoSuperset(ug, wp, cmp, fuzzy) ==
    IF Advanced(ug, wp, cmp) /\ ~ExactMatch(ug, wp) /\ FuzzyMatch(ug, wp)
    THEN TRUE
    ELSE fuzzy

\* cmp_data_fuzzy[col][country] after the cell's pass, fuzzy its value before
CellFuzzy(ug, wp, cmp, fuzzy) ==
    IF CellStrict(ug, wp, cmp) THEN TRUE
    ELSE IF Advanced(ug, wp, cmp) /\ FuzzyMatch(ug, wp) THEN TRUE
    ELSE fuzzy

\* lines 311-323
Begin ==
    /\ pc = "start"
    /\ IF IdenticallyLabeled(ug_index, ug_columns, wp_index, wp_columns)
       THEN /\ cmp_data' = SimpleMatch(ug_data, wp_data)
            /\ cmp_data_fuzzy' = SimpleMatch(ug_data, wp_data)
            /\ i' = 1 /\ j' = 1
            /\ pc' = "loop"
            /\ UNCHANGED error
       ELSE /\ error' = "ValueError"
            /\ pc' = "raised"
            /\ UNCHANGED locals
    /\ UNCHANGED <<tables, returned, summary, folds, workers>>

\* lines 326-402, one pass of the loop body; the chained assignments
\* cmp_data[col][country] = True write through to the frame
CompareCell ==
    /\ pc = "loop"
    /\ LET country == ug_index[i]
           col     == ug_columns[j]
           ug      == at(ug_data, col, country)
           wp      == at(wp_data, col, country)
           cmp     == at(cmp_data, col, country)
           fuzzy   == at(cmp_data_fuzzy, col, country)
       IN  IF CellRaises(ug, wp, cmp)
           THEN /\ error' = "TypeError"
                /\ pc' = "raised"
                /\ UNCHANGED locals
           ELSE /\ cmp_data' =
                      [cmp_data EXCEPT ![<<country, col>>] = CellStrict(ug, wp, cmp)]
                /\ cmp_data_fuzzy' =
                      [cmp_data_fuzzy EXCEPT
                          ![<<country, col>>] = CellFuzzy(ug, wp, cmp, fuzzy)]
                /\ IF j < Len(ug_columns)
                   THEN i' = i /\ j' = j + 1 /\ pc' = "loop"
                   ELSE IF i < Len(ug_index)
                        THEN i' = i + 1 /\ j' = 1 /\ pc' = "loop"
                        ELSE i' = i /\ j' = j /\ pc' = "swept"
                /\ UNCHANGED error
    /\ UNCHANGED <<tables, returned, summary, folds, workers>>

\* lines 404-407
Return ==
    /\ pc = "swept"
    /\ returned' = <<cmp_data, cmp_data_fuzzy>>
    /\ pc' = "returned"
    /\ UNCHANGED <<tables, locals, error, summary, folds, workers>>

(***************************************************************************)
(* print_summary(ug_data, wp_data, cmp_data, cmp_data_fuzzy).              *)
(***************************************************************************)
\* col.endswith(':de') ... else en, on the column labels of the model
ColumnLang(col) ==
    CASE col = "Country:de" -> "de"
      [] col = "Country:es" -> "es"
      [] col = "Country:fr" -> "fr"
      [] col = "Country:nb" -> "nb"
      [] OTHER -> "en"

\* lines 235-236: listed under "Wikipedia data could not be found"
IsNoWp(key, wp, cmp) == ~cmp[key] /\ isna(wp[key])

\* lines 240-241
IsNan(key, ug, cmp) == cmp[key] /\ isna(ug[key])

\* lines 251-252: listed under "probably/mostly match"
IsFuzzy(key, wp, cmp, fuzzy) == fuzzy[key] /\ ~cmp[key] /\ notna(wp[key])

\* the mismatch test without its pandas.notna(wp_data[col][country])
IsMismatch_NoWpCheck(key, wp, cmp, fuzzy) == ~(fuzzy[key] \/ cmp[key])

\* lines 260-261: listed under "Mismatches"
IsMismatch(key, wp, cmp, fuzzy) == ~(fuzzy[key] \/ cmp[key]) /\ notna(wp[key])

\* the three sweeps and the totals; the layout of a printed line
\* (one_result_comparison) is left out, the cell it is printed for is kept
PrintSummary ==
    /\ pc = "returned"
    /\ LET cmp   == returned[1]
           fuzzy == returned[2]
           cells == CellOrder(ug_index, ug_columns)
           nowp  == SelectSeq(cells, LAMBDA key : IsNoWp(key, wp_data, cmp))
           nan   == SelectSeq(cells, LAMBDA key : IsNan(key, ug_data, cmp))
           fuzzies    == SelectSeq(cells,
                             LAMBDA key : IsFuzzy(key, wp_data, cmp, fuzzy))
           mismatches == SelectSeq(cells,
                             LAMBDA key : IsMismatch(key, wp_data, cmp, fuzzy))
       IN  \* line 238: ' (UG=' + ug_data[col][country] with a NaN: TypeError
           IF \E k \in 1..Len(nowp) : isna(ug_data[nowp[k]])
           THEN /\ error' = "TypeError"
                /\ pc' = "raised"
                /\ UNCHANGED summary
           ELSE /\ printed_nowp' = nowp
                /\ vals_nowp' = Len(nowp)
                /\ vals_nan' = Len(nan)
                /\ printed_fuzzy' = fuzzies
                /\ vals_matching_fuzzy' = Len(fuzzies)
                /\ printed_mismatch' = mismatches
                /\ vals_mismatch' = Len(mismatches)
                /\ vals_mismatch_lang' =
                      [l \in Langs |->
                          Len(SelectSeq(mismatches,
                                  LAMBDA key : ColumnLang(key[2]) = l))]
                /\ vals_matching' =
                      (Len(ug_index) * Len(ug_columns) - Len(nan))
                          - Len(fuzzies) - Len(nowp) - Len(mismatches)
                /\ pc' = "done"
                /\ UNCHANGED error
    /\ UNCHANGED <<tables, locals, returned, folds, workers>>

Next == Begin \/ CompareCell \/ Return \/ PrintSummary

Spec == Init /\ [][Next]_vars

\* one cell, over the texts built from CellTokens
SpecCell == InitCell /\ [][Next]_vars

(***************************************************************************)
(* The fuzzy fold applied to a text, and again to what it produced.        *)
(***************************************************************************)
FoldOnce ==
    /\ pc = "fold"
    /\ fold_once' = texts_fuzzy({fold_text})
    /\ pc' = "folded"
    /\ UNCHANGED <<tables, locals, error, returned, summary, fold_text, fold_twice,
                   workers>>

FoldTwice ==
    /\ pc = "folded"
    /\ fold_twice' = texts_fuzzy(fold_once)
    /\ pc' = "refolded"
    /\ UNCHANGED <<tables, locals, error, returned, summary, fold_text, fold_once,
                   workers>>

NextFold == FoldOnce \/ FoldTwice

SpecFold == InitFold /\ [][NextFold]_vars

(***************************************************************************)
(* The sweep of compare_data shared out: the loop body of lines 329-402    *)
(* run once per cell, the cells taken in any order and up to NumWorkers    *)
(* passes under way at once.  The run starts after the sequential sweep of *)
(* the same two tables has ended, so that both outcomes are in one state.  *)
(***************************************************************************)
St == <<"S", "t">>

StLink == <<"[", "[", "S", "t", "]", "]">>

Saint == <<"S", "a", "i", "n", "t">>

\* the cell pairs of the shared-out sweep: no match, both missing, the exact
\* tier, the fuzzy tier, and the pair whose pass raises
ParCases ==
    {<<St, NaN>>, <<NaN, NaN>>, <<St, StLink>>, <<St, Saint>>, <<NaN, Saint>>}

\* the countries of the shared-out sweep
ParIndex == <<CountryNames[1], CountryNames[2]>>

InitAnyOrder ==
    \E grid \in [(1..Len(ParIndex)) \X (1..Len(Columns)) -> ParCases] :
        /\ ug_index = ParIndex
        /\ ug_columns = Columns
        /\ ug_data = Table(ug_index, ug_columns,
                           [rc \in DOMAIN grid |-> grid[rc][1]])
        /\ wp_index = ug_index
        /\ wp_columns = ug_columns
        /\ wp_data = Table(wp_index, wp_columns,
                           [rc \in DOMAIN grid |-> grid[rc][2]])
        /\ pc = "start"
        /\ Fresh
        /\ NoFold

\* df[col] = value, the assignment that reaches every row of the column
SetCell_WholeColumn(df, key, value) ==
    [k \in DOMAIN df |-> IF k[2] = key[2] THEN value ELSE df[k]]

\* df[col][country] = value, lines 331, 358, 398 and 402
SetCell(df, key, value) == [df EXCEPT ![key] = value]

\* lines 322-323 again, for the shared-out sweep
Fork ==
    /\ pc = "returned" \/ (pc = "raised" /\ error = "TypeError")
    /\ par_data' = SimpleMatch(ug_data, wp_data)
    /\ par_data_fuzzy' = SimpleMatch(ug_data, wp_data)
    /\ todo' = DOMAIN ug_data
    /\ inflight' = {}
    /\ order' = <<>>
    /\ pc' = "workers"
    /\ UNCHANGED <<tables, locals, error, returned, summary, folds,
                   par_error, par_returned>>

\* lines 329-358 for a cell no pass has begun: the tests of lines 330 and
\* 334 and the writes to the strict table; the pass remembers whether it
\* is inside the elif of line 334
WorkerStrict ==
    /\ pc = "workers"
    /\ Cardinality(inflight) < NumWorkers
    /\ \E key \in todo :
         LET ug  == ug_data[key]
             wp  == wp_data[key]
             cmp == par_data[key]
         IN  IF CellRaises(ug, wp, cmp)
             THEN /\ par_error' = "TypeError"
                  /\ pc' = "par_raised"
                  /\ UNCHANGED <<todo, inflight, order, par_data>>
             ELSE /\ par_data' = SetCell(par_data, key, CellStrict(ug, wp, cmp))
                  /\ todo' = todo \ {key}
                  /\ inflight' = inflight \cup {<<key, Advanced(ug, wp, cmp)>>}
                  /\ order' = Append(order, key)
                  /\ UNCHANGED <<pc, par_error>>
    /\ UNCHANGED <<tables, locals, error, returned, summary, folds,
                   par_data_fuzzy, par_returned>>

\* lines 360-402 for a pass under way: the fuzzy tier inside the elif, then
\* line 401 reads the cell of the strict table
WorkerFuzzy ==
    /\ pc = "workers"
    /\ \E job \in inflight :
         LET key   == job[1]
             ug    == ug_data[key]
             wp    == wp_data[key]
             fuzzy == par_data_fuzzy[key]
             value == IF par_data[key] THEN TRUE
                      ELSE IF job[2] /\ FuzzyMatch(ug, wp) THEN TRUE
                      ELSE fuzzy
         IN  /\ par_data_fuzzy' = SetCell(par_data_fuzzy, key, value)
             /\ inflight' = inflight \ {job}
    /\ UNCHANGED <<tables, pc, locals, error, returned, summary, folds,
                   todo, order, par_data, par_error, par_returned>>

\* line 407, once every pass has ended
Join ==
    /\ pc = "workers"
    /\ todo = {} /\ inflight = {}
    /\ par_returned' = <<par_data, par_data_fuzzy>>
    /\ pc' = "joined"
    /\ UNCHANGED <<tables, locals, error, returned, summary, folds,
                   todo, inflight, order, par_data, par_data_fuzzy, par_error>>

NextAnyOrder ==
    Begin \/ CompareCell \/ Return \/ Fork \/ WorkerStrict \/ WorkerFuzzy \/ Join

SpecAnyOrder == InitAnyOrder /\ [][NextAnyOrder]_vars

(***************************************************************************)
(* Properties.                                                             *)
(***************************************************************************)
\* the cells of the reference table
Cells == Keys(ug_index, ug_columns)

\* compare_data has returned its two tables to main
Returned == returned # <<>>

strict_table == returned[1]

fuzzy_table == returned[2]

\* the scraped value's raw, markup-stripped or trimmed text is the reference
\* text or the reference text followed by one of the suffixes
ExactlyEqual(ug, wp) ==
    LET plain == strip_code(wp)
        shown == {wp, plain, strip(plain)}
    IN  \E s \in {<<>>} \cup Range(wp_suffixes) : ug \o s \in shown

\* a text lower-cased, then stripped of diacritics, then rewritten by the table
Normal(text) == substitute(unidecode(lower(text)))

\* how often x is listed in q
Count(q, x) == Cardinality({k \in 1..Len(q) : q[k] = x})

\* C1: in the tables compare_data returns, every cell that is true in the
\* strict table is true in the fuzzy table.
C1_FuzzySupersetOfStrict ==
    Returned => \A key \in Cells : strict_table[key] => fuzzy_table[key]

\* tables were returned in which a cell became a strict match in the loop
\* (not by the element-wise ==) and another cell matches in neither table
C1_Witness ==
    /\ Returned
    /\ \E key \in Cells :
          strict_table[key] /\ ~ElementEq(ug_data[key], wp_data[key])
    /\ \E key \in Cells : ~fuzzy_table[key]

\* C2: the cell matcher yields a pair of flags for every combination of
\* absent and present values: the sweep never ends in a TypeError.
C2_CellMatcherNeverRaises == error # "TypeError"

\* C3: folding what the fuzzy fold produced gives the same texts again, for
\* every text.
C3_FoldIdempotent == pc = "refolded" => fold_twice = fold_once

\* C3 as amended: folding what the fuzzy fold produced gives the same texts
\* again, for every text that contains no '.'.
C3_FoldIdempotentWithoutDot ==
    (pc = "refolded" /\ "." \notin Range(fold_text)) => fold_twice = fold_once

\* a text without '.' was folded twice, and the fold rewrote it
C3_Witness ==
    /\ pc = "refolded"
    /\ "." \notin Range(fold_text)
    /\ fold_text \notin fold_once
    /\ Contains(lower(fold_text), <<"s","a","i","n","t">>)

\* C4: a cell whose reference value is present and whose scraped value is
\* absent is false in both tables, from the element-wise == on; no cell
\* with an absent scraped value enters the exact or the fuzzy tier.
C4_NoSourceDataIsNoMatch ==
    cmp_data # <<>> =>
        \A key \in Cells :
            isna(wp_data[key]) =>
                /\ ~Advanced(ug_data[key], wp_data[key], cmp_data[key])
                /\ notna(ug_data[key]) =>
                      ~cmp_data[key] /\ ~cmp_data_fuzzy[key]

\* tables were returned for a reference table with such a cell
C4_Witness ==
    /\ Returned
    /\ \E key \in Cells :
          /\ notna(ug_data[key]) /\ isna(wp_data[key])
          /\ ~strict_table[key] /\ ~fuzzy_table[key]

\* C5: a cell whose reference value and scraped value are both absent is
\* true in both returned tables.
C5_BothAbsentMatches ==
    Returned =>
        \A key \in Cells :
            (isna(ug_data[key]) /\ isna(wp_data[key])) =>
                strict_table[key] /\ fuzzy_table[key]

C5_Witness ==
    /\ Returned
    /\ \E key \in Cells :
          /\ isna(ug_data[key]) /\ isna(wp_data[key])
          /\ strict_table[key] /\ fuzzy_table[key]

\* C6: a cell whose scraped value's raw, markup-stripped or trimmed text is
\* the reference text, or the reference text followed by one of the
\* disambiguation suffixes, is a strict match.
C6_SuffixExpansionIsStrict ==
    Returned =>
        \A key \in Cells :
            ( /\ notna(ug_data[key]) /\ notna(wp_data[key])
              /\ ExactlyEqual(ug_data[key], wp_data[key]) ) =>
                strict_table[key]

\* a strict match of a scraped text that is the reference text plus a suffix
C6_Witness ==
    /\ Returned
    /\ \E key \in Cells :
          /\ notna(ug_data[key])
          /\ wp_data[key] = ug_data[key] \o wp_suffixes[1]
          /\ strict_table[key]

\* C7: a cell whose present scraped value is no exact or suffix-expanded
\* match but equals the reference after lower-casing, diacritic stripping
\* and the substitution table is a fuzzy match and no strict match.
C7_FoldingOnlyInFuzzyTier ==
    Returned =>
        \A key \in Cells :
            ( /\ notna(ug_data[key]) /\ notna(wp_data[key])
              /\ ~ExactlyEqual(ug_data[key], wp_data[key])
              /\ Normal(ug_data[key]) \in
                    {Normal(w) : w \in Range(wp_texts(wp_data[key]))} ) =>
                ~strict_table[key] /\ fuzzy_table[key]

\* such a cell whose texts differ by more than case: a substitution or a
\* diacritic made them equal
C7_Witness ==
    /\ Returned
    /\ \E key \in Cells :
          /\ notna(ug_data[key]) /\ notna(wp_data[key])
          /\ ~ExactlyEqual(ug_data[key], wp_data[key])
          /\ Normal(wp_data[key]) = Normal(ug_data[key])
          /\ lower(wp_data[key]) # lower(ug_data[key])
          /\ ~strict_table[key] /\ fuzzy_table[key]

\* C8: in the returned tables a cell with a present scraped value that is
\* no exact or suffix-expanded match is a fuzzy match exactly when a folded
\* reference candidate is a contiguous substring of a folded scraped
\* candidate; the scraped text lying inside the reference text is not enough.
C8_FuzzyIsContainment ==
    Returned =>
        \A key \in Cells :
            ( /\ notna(wp_data[key])
              /\ ~ExactlyEqual(ug_data[key], wp_data[key]) ) =>
                LET folded_ug == texts_fuzzy(Range(ug_texts(ug_data[key])))
                    folded_wp == texts_fuzzy(Range(wp_texts(wp_data[key])))
                IN  fuzzy_table[key] <=>
                        \E s \in folded_ug, w \in folded_wp : Contains(w, s)

\* a fuzzy match by containment alone: the folded reference candidates are
\* not empty and none of them equals a folded scraped candidate
C8_Witness ==
    /\ Returned
    /\ \E key \in Cells :
          /\ notna(ug_data[key]) /\ notna(wp_data[key])
          /\ ~strict_table[key] /\ fuzzy_table[key]
          /\ LET folded_ug == texts_fuzzy(Range(ug_texts(ug_data[key])))
                 folded_wp == texts_fuzzy(Range(wp_texts(wp_data[key])))
             IN  <<>> \notin folded_ug /\ folded_ug \cap folded_wp = {}

\* C9: once compare_data has started on two tables whose key sets differ, it
\* has raised the ValueError of the comparison: no result table was made
\* and none was returned.
C9_MismatchRaisesBeforeAnyCell ==
    (pc # "start" /\ Cells # Keys(wp_index, wp_columns)) =>
        /\ pc = "raised" /\ error = "ValueError"
        /\ cmp_data = <<>> /\ cmp_data_fuzzy = <<>>
        /\ returned = <<>>

C9_Witness ==
    /\ pc = "raised" /\ error = "ValueError"
    /\ Cells # Keys(wp_index, wp_columns)
    /\ returned = <<>>

\* C10: in the summary every cell with a reference value and no scraped
\* value is listed once as without Wikipedia data and never as a fuzzy
\* match or a mismatch; the three lists share no cell, and each count is
\* the number of cells of its list.
C10_NoDataNeverMismatch ==
    pc = "done" =>
        /\ \A key \in Cells :
              (notna(ug_data[key]) /\ isna(wp_data[key])) =>
                  /\ Count(printed_nowp, key) = 1
                  /\ Count(printed_fuzzy, key) = 0
                  /\ Count(printed_mismatch, key) = 0
        /\ Range(printed_nowp) \cap Range(printed_fuzzy) = {}
        /\ Range(printed_nowp) \cap Range(printed_mismatch) = {}
        /\ Range(printed_fuzzy) \cap Range(printed_mismatch) = {}
        /\ vals_nowp = Cardinality(Range(printed_nowp))
        /\ vals_matching_fuzzy = Cardinality(Range(printed_fuzzy))
        /\ vals_mismatch = Cardinality(Range(printed_mismatch))

\* a summary with a cell in each of the three lists
C10_Witness ==
    /\ pc = "done"
    /\ vals_nowp > 0 /\ vals_matching_fuzzy > 0 /\ vals_mismatch > 0

\* what the loop body gives for a cell from its own two values
OwnResult(key) ==
    LET ug  == ug_data[key]
        wp  == wp_data[key]
        cmp == ElementEq(ug, wp)
    IN  <<CellStrict(ug, wp, cmp), CellFuzzy(ug, wp, cmp, cmp)>>

\* C11: each cell's pair of results depends on that cell's two values only:
\* in the tables the row-by-row sweep returns, every cell holds what the
\* loop body gives for its own reference and scraped value; a sweep whose
\* cell passes run in any order, interleaved, returns the same two tables;
\* and it raises only where the row-by-row sweep raised.
C11_CellsAreIndependent ==
    /\ pc = "returned" =>
          \A key \in Cells :
              <<strict_table[key], fuzzy_table[key]>> = OwnResult(key)
    /\ pc = "joined" => par_returned = returned
    /\ pc = "par_raised" => error = "TypeError"

\* the shared-out sweep returned after beginning the last cell of the
\* row-by-row order first, and its tables hold a cell the exact tier
\* matched, a cell only the fuzzy tier matched and a cell nothing matched
C11_Witness ==
    /\ pc = "joined"
    /\ order[1] = CellOrder(ug_index, ug_columns)[Len(order)]
    /\ \E key \in Cells :
          par_returned[1][key] /\ ~ElementEq(ug_data[key], wp_data[key])
    /\ \E key \in Cells : par_returned[2][key] /\ ~par_returned[1][key]
    /\ \E key \in Cells : ~par_returned[2][key]

====
